---- MODULE Spec2Model ----
(***************************************************************************)
(* A model of pdm-tool (src/src/main.rs): a registry of tasks built by     *)
(* add_entry, anchored by add_start / add_end, scheduled by                *)
(* propagate_forward / propagate_backward and read by get_critical_tasks.  *)
(*                                                                         *)
(* Tasks are Rc<RefCell<Task>> objects.  The model keeps them in a heap    *)
(* (a sequence of Task records, an object's address is its index) because  *)
(* pred and succ hold object handles, not identifiers: an object can stay  *)
(* reachable through an edge after its identifier was rebound in the map.  *)
(* The registry itself (RCTaskMap) maps an identifier to an address.       *)
(***************************************************************************)
EXTENDS Integers, Sequences, FiniteSets, TLC

VARIABLES
    input,      \* the lines of the input file main has not read yet
    heap,       \* the Task objects allocated so far, by address
    map,        \* RCTaskMap: identifier -> address
    pc,         \* where the run is: build, forward, fwd_done, backward, bwd_done,
                \* displayed, panicked
    worklist,   \* the VecDeque<String> of the propagation pass that is running
    anchors,    \* which of add_start / add_end have run
    runs,       \* completed forward+backward rounds
    ct,         \* the last value returned by get_critical_tasks
    panic,      \* the message of the panic that ended the run, "" while it runs
    profile,    \* "release" once an overflow has wrapped, "any" until then
    sinks,      \* history: addresses that had no successor when add_end began
    first,      \* history: the heap as it was when the first round completed
    base,       \* history: the heap and map as they were before the first anchor
    trace       \* history: the writes of the running pass, in order: the task
                \* written and the values of its neighbours the pass read for it

vars == <<input, heap, map, pc, worklist, anchors, runs, ct, panic, profile, sinks, first,
          base, trace>>

-----------------------------------------------------------------------------
(* Bounds of the model *)

\* Largest ordinary duration offered to add_entry (u32::MAX is offered too).
MaxDur == 1
\* Longest dependency list offered to add_entry.
MaxDeps == 2
\* Number of forward+backward rounds.
MaxRuns == 2
\* Longest worklist the model follows.  A registry in which an anchor name
\* is bound twice makes a pass enqueue without end; the model stops
\* following such a pass when its worklist is this long.
MaxQueue == 32
\* Width of the machine word standing for u32.  TLC's integers are 32-bit
\* signed, so 2^32 - 1 cannot be written; the word is scaled down to this
\* width and all arithmetic of the program is done at it.
WordBits == 16

-----------------------------------------------------------------------------
(* Program constants *)

START_ID == "START"
END_ID == "END"
U32_MAX == 2^WordBits - 1

\* The identifiers offered to add_entry.  A registry holds at most one task
\* per identifier, so this set also bounds the size of the registry.
TaskIds == {"A", "B", "C"}

\* Durations that parse as u32, and duration fields that do not: the
\* field is modelled by the integer it spells, -1 and u32::MAX + 1 being
\* two texts str::parse::<u32> rejects.
Durations == (0..MaxDur) \cup {U32_MAX}
DurationFields == Durations \cup {-1, U32_MAX + 1}

\* str::parse::<u32>: Ok exactly for the integers of the u32 range.
ParsesAsU32(d) == d \in 0..U32_MAX

-----------------------------------------------------------------------------
(* Helpers *)

Range(s) == {s[i] : i \in DOMAIN s}

\* Every order in which a hashed collection holding S may be iterated.
RECURSIVE Orders(_)
Orders(S) ==
    IF S = {} THEN {<<>>}
    ELSE UNION {{<<x>> \o s : s \in Orders(S \ {x})} : x \in S}

Max(S) == CHOOSE x \in S : \A y \in S : y <= x
Min(S) == CHOOSE x \in S : \A y \in S : x <= y

\* Iterator::max / Iterator::min over a Vec of handles: None on an empty Vec.
IterMax(S, none) == IF S = {} THEN none ELSE Max(S)
IterMin(S, none) == IF S = {} THEN none ELSE Min(S)

Task_new(id, duration) ==
    [id |-> id,
     early_start  |-> 0,
     early_finish |-> 0,
     late_start   |-> U32_MAX,
     late_finish  |-> U32_MAX,
     duration     |-> duration,
     pred |-> <<>>,
     succ |-> <<>>]

is_critical(t) ==
    /\ t.early_start = t.late_start
    /\ t.early_finish = t.late_finish

\* succ_ids that yields the first successor only.
succ_ids_FirstOnly(t) == IF t.succ = <<>> THEN <<>> ELSE <<heap[t.succ[1]].id>>

succ_ids(t) == [i \in DOMAIN t.succ |-> heap[t.succ[i]].id]
\* pred_ids that yields the first predecessor only.
pred_ids_FirstOnly(t) == IF t.pred = <<>> THEN <<>> ELSE <<heap[t.pred[1]].id>>

pred_ids(t) == [i \in DOMAIN t.pred |-> heap[t.pred[i]].id]

\* The addresses the registry holds.
Tasks == {map[k] : k \in DOMAIN map}

\* map.insert(id, addr): binds id, replacing any earlier binding.
MapInsert(m, id, a) == [k \in (DOMAIN m) \cup {id} |-> IF k = id THEN a ELSE m[k]]

\* s.push(x) on the pred or succ Vec of a task
Push(s, x) == Append(s, x)

-----------------------------------------------------------------------------
(* add_entry: the line is given as its fields, the result of split(" ").   *)
(* Field 1 is the identifier, field 2 the duration field, field 3 the      *)
(* dependency list, the result of split(",").                              *)

DepLists == UNION {[1..n -> TaskIds] : n \in 1..MaxDeps}

Lines ==
    {<<id>> : id \in TaskIds}
    \cup {<<id, d>> : id \in TaskIds, d \in DurationFields}
    \cup {<<id, d, deps>> : id \in TaskIds, d \in DurationFields, deps \in DepLists}

\* The dependency loop of add_entry over the deps in the order `order`,
\* for the new object at address t: the heap after the longest prefix of
\* known dependencies has been wired.
RECURSIVE WireDeps(_, _, _, _)
WireDeps(h, m, t, order) ==
    IF order = <<>> \/ Head(order) \notin DOMAIN m THEN h
    ELSE LET d == m[Head(order)]
             h1 == [h EXCEPT ![t].pred = Push(@, d)]
             h2 == [h1 EXCEPT ![d].succ = Push(@, t)]
         IN WireDeps(h2, m, t, Tail(order))

\* AllKnown with the None arm skipping the dependency instead of panicking.
AllKnown_SkipsUnknown(m, deps) == TRUE

AllKnown(m, deps) == \A d \in deps : d \in DOMAIN m

\* contains_key that never finds the key.
contains_key_NeverFound(m, id) == FALSE

\* HashMap::contains_key
contains_key(m, id) == id \in DOMAIN m

MsgFields == "Tasks must have both an ID and duration and at most one dependency list."
MsgDuplicate == "Duplicate IDs are not allowed."
MsgDuration == "Only integers allowed for duration."
MsgDependency == "Invalid task in dependency list."
MsgUnwrap == "called Option::unwrap() on a None value"
MsgOverflow == "attempt to add with overflow"
MsgUnderflow == "attempt to subtract with overflow"

\* panic!: the run ends; what was written before the panic stays written.
Panic(msg) == pc' = "panicked" /\ panic' = msg

add_entry(split) ==
    /\ pc = "build"
    /\ UNCHANGED <<worklist, anchors, runs, ct, profile, sinks, first, base, trace>>
    /\ IF ~(Len(split) = 2 \/ Len(split) = 3)
       THEN Panic(MsgFields) /\ UNCHANGED <<heap, map>>
       ELSE IF contains_key(map, split[1])
       THEN Panic(MsgDuplicate) /\ UNCHANGED <<heap, map>>
       ELSE IF ~ParsesAsU32(split[2])
       THEN Panic(MsgDuration) /\ UNCHANGED <<heap, map>>
       ELSE LET id == split[1]
                t == Len(heap) + 1
                h0 == Append(heap, Task_new(id, split[2]))
            IN IF Len(split) = 3
               THEN \E order \in Orders(Range(split[3])) :
                      /\ heap' = WireDeps(h0, map, t, order)
                      /\ IF AllKnown(map, Range(split[3]))
                         THEN map' = MapInsert(map, id, t) /\ UNCHANGED <<pc, panic>>
                         ELSE Panic(MsgDependency) /\ map' = map
               ELSE /\ heap' = h0
                    /\ map' = MapInsert(map, id, t)
                    /\ UNCHANGED <<pc, panic>>

-----------------------------------------------------------------------------
(* add_start, add_end: `order` is the order in which map.values() yields   *)
(* the tasks the loop body acts on (those with no predecessor, or with no  *)
(* successor); the loop leaves the others as they are.                     *)

RECURSIVE WireStart(_, _, _)
WireStart(h, start, order) ==
    IF order = <<>> THEN h
    ELSE LET task == Head(order)
             h2 == IF h[task].pred = <<>>
                   THEN [h EXCEPT ![task].pred = Push(@, start),
                                  ![start].succ = Push(@, task)]
                   ELSE h
         IN WireStart(h2, start, Tail(order))

\* WireEnd with the test of add_start's loop: END is wired to the tasks
\* that have no predecessor.
RECURSIVE WireEnd_TestsPred(_, _, _)
WireEnd_TestsPred(h, end, order) ==
    IF order = <<>> THEN h
    ELSE LET task == Head(order)
             h2 == IF h[task].pred = <<>>
                   THEN [h EXCEPT ![task].succ = Push(@, end),
                                  ![end].pred = Push(@, task)]
                   ELSE h
         IN WireEnd_TestsPred(h2, end, Tail(order))

RECURSIVE WireEnd(_, _, _)
WireEnd(h, end, order) ==
    IF order = <<>> THEN h
    ELSE LET task == Head(order)
             h2 == IF h[task].succ = <<>>
                   THEN [h EXCEPT ![task].succ = Push(@, end),
                                  ![end].pred = Push(@, task)]
                   ELSE h
         IN WireEnd(h2, end, Tail(order))

\* The registry (heap and map) add_start leaves when map.values() yields
\* the tasks without predecessor in the order `order`.
AddStart(h, m, order) ==
    LET start == Len(h) + 1
    IN [heap |-> WireStart(Append(h, Task_new(START_ID, 0)), start, order),
        map |-> MapInsert(m, START_ID, start)]

\* The registry add_end leaves when map.values() yields the tasks without
\* successor in the order `order`.
AddEnd(h, m, order) ==
    LET end == Len(h) + 1
    IN [heap |-> WireEnd(Append(h, Task_new(END_ID, 0)), end, order),
        map |-> MapInsert(m, END_ID, end)]

\* The orders in which map.values() may yield the tasks without
\* predecessor, without successor.
StartOrders(h, m) == Orders({a \in {m[k] : k \in DOMAIN m} : h[a].pred = <<>>})
EndOrders(h, m) == Orders({a \in {m[k] : k \in DOMAIN m} : h[a].succ = <<>>})

\* What the first of the two anchor calls records: the registry it found.
BaseKept == IF anchors = {} THEN [heap |-> heap, map |-> map] ELSE base

add_start ==
    /\ pc = "build"
    /\ input = <<>>
    /\ "start" \notin anchors
    /\ \E order \in StartOrders(heap, map) :
          /\ heap' = AddStart(heap, map, order).heap
          /\ map' = AddStart(heap, map, order).map
    /\ anchors' = anchors \cup {"start"}
    /\ base' = BaseKept
    /\ UNCHANGED <<input, pc, worklist, runs, ct, panic, profile, sinks, first, trace>>

add_end ==
    /\ pc = "build"
    /\ input = <<>>
    /\ "end" \notin anchors
    /\ \E order \in EndOrders(heap, map) :
          /\ heap' = AddEnd(heap, map, order).heap
          /\ map' = AddEnd(heap, map, order).map
    /\ anchors' = anchors \cup {"end"}
    /\ sinks' = {a \in Tasks : heap[a].succ = <<>>}
    /\ base' = BaseKept
    /\ UNCHANGED <<input, pc, worklist, runs, ct, panic, profile, first, trace>>

-----------------------------------------------------------------------------
(* u32 arithmetic.  An addition or subtraction that leaves the u32 range   *)
(* panics where overflow checks are compiled in (the dev and test          *)
(* profiles) and wraps where they are not (the release profile).  Which    *)
(* build runs is open until the first overflow: a panic ends the run, a    *)
(* wrap fixes the profile to "release" for the rest of it.                 *)

Modulus == U32_MAX + 1
Overflows(x) == x < 0 \/ x > U32_MAX
Wrap(x) == x % Modulus

-----------------------------------------------------------------------------
(* propagate_forward: the seeding of the worklist, then one action per     *)
(* iteration of the while loop.  The loop condition is evaluated at the    *)
(* end of the iteration that precedes it.                                  *)

\* One entry of trace: the task at address a was written, after the
\* pass had read the values `seen` for it.
Written(a, seen) == [task |-> a, seen |-> seen]

\* What propagate_forward reads for cur: the early_finish of each of its
\* predecessors, in pred order.
PredFinishes(cur) == [i \in DOMAIN heap[cur].pred |-> heap[heap[cur].pred[i]].early_finish]

\* What propagate_backward reads for cur: the late_start of each of its
\* successors, in succ order.
SuccStarts(cur) == [i \in DOMAIN heap[cur].succ |-> heap[heap[cur].succ[i]].late_start]

\* LoopExit that never leaves the loop.
LoopExit_NeverOver(wl, running, over) == running

\* while !worklist.is_empty(): the pass is over when the queue is empty.
LoopExit(wl, running, over) == IF wl = <<>> THEN over ELSE running

\* EarlyStart that never lowers a value already computed: the maximum is
\* taken over the predecessors and the task's own early_finish.
EarlyStart_KeepsOwn(cur) ==
    Max({heap[x].early_finish : x \in Range(heap[cur].pred)} \cup {heap[cur].early_finish})

\* The max early_finish of cur's predecessors, 0 when it has none.
EarlyStart(cur) ==
    IterMax({heap[x].early_finish : x \in Range(heap[cur].pred)}, 0)

propagate_forward ==
    /\ \/ pc = "build" /\ anchors = {"start", "end"}
       \/ pc = "bwd_done" /\ runs < MaxRuns
    /\ worklist' = <<START_ID>>
    /\ pc' = "forward"
    /\ trace' = <<>>
    /\ UNCHANGED <<input, heap, map, anchors, runs, ct, panic, profile, sinks, first, base>>

forward_step ==
    /\ pc = "forward"
    /\ worklist # <<>>
    /\ Len(worklist) <= MaxQueue
    /\ UNCHANGED <<input, map, anchors, runs, ct, sinks, first, base>>
    /\ LET id == Head(worklist)
       IN IF id \notin DOMAIN map
          THEN /\ Panic(MsgUnwrap)
               /\ worklist' = Tail(worklist)
               /\ UNCHANGED <<heap, profile, trace>>
          ELSE LET cur == map[id]
                   wl == Tail(worklist) \o succ_ids(heap[cur])
                   early_start == EarlyStart(cur)
                   new_dur == early_start + heap[cur].duration
               IN /\ trace' = Append(trace, Written(cur, PredFinishes(cur)))
                  /\ IF Overflows(new_dur)
                     THEN \/ /\ profile = "any"
                             /\ Panic(MsgOverflow)
                             /\ heap' = [heap EXCEPT ![cur].early_start = early_start]
                             /\ worklist' = wl
                             /\ profile' = profile
                          \/ /\ heap' = [heap EXCEPT ![cur].early_start = early_start,
                                                     ![cur].early_finish = Wrap(new_dur)]
                             /\ worklist' = wl
                             /\ pc' = LoopExit(wl, "forward", "fwd_done")
                             /\ panic' = panic
                             /\ profile' = "release"
                     ELSE /\ heap' = [heap EXCEPT ![cur].early_start = early_start,
                                                  ![cur].early_finish = new_dur]
                          /\ worklist' = wl
                          /\ pc' = LoopExit(wl, "forward", "fwd_done")
                          /\ UNCHANGED <<panic, profile>>

-----------------------------------------------------------------------------
(* propagate_backward *)

\* What the completion of a backward pass records: the round is counted,
\* and the first round's result is kept for comparison.
RoundDone(h) ==
    /\ runs' = runs + 1
    /\ first' = IF runs = 0 THEN h ELSE first

\* The block that seeds the pass: END's early_finish, late_start and
\* late_finish are all set to END's early_start.
SeedEnd(end) ==
    LET t == heap[end].early_start
    IN [heap EXCEPT ![end].early_finish = t,
                    ![end].late_start = t,
                    ![end].late_finish = t]

\* LateFinish taking the max late_start of cur's successors.
LateFinish_TakesMax(cur) ==
    IterMax({heap[x].late_start : x \in Range(heap[cur].succ)}, U32_MAX)

\* The min late_start of cur's successors, u32::MAX when it has none.
LateFinish(cur) ==
    IterMin({heap[x].late_start : x \in Range(heap[cur].succ)}, U32_MAX)

propagate_backward ==
    /\ pc = "fwd_done"
    /\ UNCHANGED <<input, map, anchors, ct, profile, sinks, base>>
    /\ IF END_ID \notin DOMAIN map
       THEN Panic(MsgUnwrap) /\ trace' = <<>> /\ UNCHANGED <<heap, worklist, runs, first>>
       ELSE LET end == map[END_ID]
                h == SeedEnd(end)
                wl == pred_ids(heap[end])
            IN /\ heap' = h
               /\ trace' = <<Written(end, <<heap[end].early_start>>)>>
               /\ worklist' = wl
               /\ pc' = LoopExit(wl, "backward", "bwd_done")
               /\ panic' = panic
               /\ IF wl = <<>> THEN RoundDone(h) ELSE UNCHANGED <<runs, first>>

backward_step ==
    /\ pc = "backward"
    /\ worklist # <<>>
    /\ Len(worklist) <= MaxQueue
    /\ UNCHANGED <<input, map, anchors, ct, sinks, base>>
    /\ LET id == Head(worklist)
       IN IF id \notin DOMAIN map
          THEN /\ Panic(MsgUnwrap)
               /\ worklist' = Tail(worklist)
               /\ UNCHANGED <<heap, runs, profile, first, trace>>
          ELSE LET cur == map[id]
                   wl == Tail(worklist) \o pred_ids(heap[cur])
                   late_finish == LateFinish(cur)
                   new_ls == late_finish - heap[cur].duration
                   wrapped == [heap EXCEPT ![cur].late_finish = late_finish,
                                           ![cur].late_start = Wrap(new_ls)]
                   exact == [heap EXCEPT ![cur].late_finish = late_finish,
                                         ![cur].late_start = new_ls]
               IN /\ trace' = Append(trace, Written(cur, SuccStarts(cur)))
                  /\ IF Overflows(new_ls)
                     THEN \/ /\ profile = "any"
                             /\ Panic(MsgUnderflow)
                             /\ heap' = [heap EXCEPT ![cur].late_finish = late_finish]
                             /\ worklist' = wl
                             /\ UNCHANGED <<runs, profile, first>>
                          \/ /\ heap' = wrapped
                             /\ worklist' = wl
                             /\ pc' = LoopExit(wl, "backward", "bwd_done")
                             /\ panic' = panic
                             /\ profile' = "release"
                             /\ IF wl = <<>> THEN RoundDone(wrapped)
                                             ELSE UNCHANGED <<runs, first>>
                     ELSE /\ heap' = exact
                          /\ worklist' = wl
                          /\ pc' = LoopExit(wl, "backward", "bwd_done")
                          /\ UNCHANGED <<panic, profile>>
                          /\ IF wl = <<>> THEN RoundDone(exact)
                                          ELSE UNCHANGED <<runs, first>>

-----------------------------------------------------------------------------
(* get_critical_tasks: filter in map.values() order, then Vec::sort_by,    *)
(* a stable sort, on early_start.  `order` is the order in which           *)
(* map.values() yields the tasks that pass the filter.  A stable sort      *)
(* keeps the relative order of the tasks that compare Equal and nothing    *)
(* else of the order it is given, so two orders that agree on the tasks    *)
(* of each early_start give the same result: one order of each such class  *)
(* is enumerated, the one that yields the tasks of larger early_start      *)
(* first, which the sort has to reverse.                                   *)

\* Stable insertion of address a into s, sorted by early_start: a goes
\* after every element that does not compare Greater than it.
RECURSIVE InsertSorted(_, _)
InsertSorted(s, a) ==
    IF s = <<>> THEN <<a>>
    ELSE IF heap[Head(s)].early_start > heap[a].early_start
         THEN <<a>> \o s
         ELSE <<Head(s)>> \o InsertSorted(Tail(s), a)

\* sort_by that leaves the Vec in filter order.
sort_by_Unsorted(s) == s

RECURSIVE sort_by(_)
sort_by(s) ==
    IF s = <<>> THEN <<>>
    ELSE InsertSorted(sort_by(SubSeq(s, 1, Len(s) - 1)), s[Len(s)])

IsCriticalAddr(a) == is_critical(heap[a])

RECURSIVE ValuesOrders(_)
ValuesOrders(S) ==
    IF S = {} THEN {<<>>}
    ELSE LET top == Max({heap[a].early_start : a \in S})
         IN UNION {{<<x>> \o s : s \in ValuesOrders(S \ {x})} :
                     x \in {a \in S : heap[a].early_start = top}}

critical_tasks(order) ==
    LET sorted == sort_by(SelectSeq(order, IsCriticalAddr))
    IN [i \in DOMAIN sorted |-> heap[sorted[i]].id]

get_critical_tasks ==
    /\ pc = "bwd_done"
    /\ \E order \in ValuesOrders({a \in Tasks : IsCriticalAddr(a)}) :
          ct' = critical_tasks(order)
    /\ pc' = "displayed"
    /\ UNCHANGED <<input, heap, map, worklist, anchors, runs, panic, profile, sinks, first,
                   base, trace>>

-----------------------------------------------------------------------------

Init ==
    /\ input = <<>>
    /\ heap = <<>>
    /\ map = <<>>
    /\ pc = "build"
    /\ worklist = <<>>
    /\ anchors = {}
    /\ runs = 0
    /\ ct = <<>>
    /\ panic = ""
    /\ profile = "any"
    /\ sinks = {}
    /\ first = <<>>
    /\ base = [heap |-> <<>>, map |-> <<>>]
    /\ trace = <<>>

\* The ordinary identifiers are interchangeable (the program compares
\* identifiers only with each other and with START_ID and END_ID), so a new
\* ordinary identifier is offered in alphabetical order only.
Le(a, b) == \/ a = b
            \/ a = "A"
            \/ a = "B" /\ b = "C"
NextFresh == {id \in TaskIds \ DOMAIN map :
                \A other \in TaskIds \ DOMAIN map : Le(id, other)}
Offered(split) == split[1] \in DOMAIN map \cup NextFresh

\* main's read loop over any file: one add_entry per line, before the
\* anchors are added.
Ingest ==
    \E split \in Lines :
        /\ anchors = {}
        /\ Offered(split)
        /\ add_entry(split)
        /\ input' = input

Next ==
    \/ Ingest
    \/ add_start
    \/ add_end
    \/ propagate_forward
    \/ forward_step
    \/ propagate_backward
    \/ backward_step
    \/ get_critical_tasks

Spec == Init /\ [][Next]_vars

\* The program runs on: a pass that has a task in its worklist executes
\* the next iteration of its loop.
SpecLive == Spec /\ WF_vars(forward_step) /\ WF_vars(backward_step)

-----------------------------------------------------------------------------
(* Runs of main over given input files: the lines are read in order, then  *)
(* the anchors are added and the passes run.                               *)

\* The one-task file: task A, duration 2, no dependencies.
SINGLE_INPUT == << <<"A", 2>> >>

\* The two-task file: A, and B depending on A.
CHAIN_INPUT == << <<"A", 2>>, <<"B", 1, <<"A">>>> >>

MEDIUM_TEST_INPUT ==
    << <<"A", 2>>,
       <<"B", 3>>,
       <<"C", 2>>,
       <<"D", 3, <<"A">>>>,
       <<"E", 2, <<"B", "C">>>>,
       <<"F", 1, <<"A", "B">>>>,
       <<"G", 4, <<"A">>>>,
       <<"H", 5, <<"C">>>>,
       <<"I", 3, <<"D", "F">>>>,
       <<"J", 3, <<"E", "G">>>>,
       <<"K", 2, <<"I">>>>,
       <<"L", 2, <<"K">>>> >>

MEDIUM_TEST_EXPECTED_CRITICAL_TASKS == {START_ID, "A", "D", "I", "K", "L", END_ID}

\* A seven-task file with many paths: two tasks without dependencies, and
\* tasks that depend on several of the tasks before them.
DENSE_INPUT ==
    << <<"A", 1>>,
       <<"B", 1>>,
       <<"C", 1, <<"A", "B">>>>,
       <<"D", 1, <<"A", "B", "C">>>>,
       <<"E", 1, <<"C", "D">>>>,
       <<"F", 1, <<"C", "D">>>>,
       <<"G", 1, <<"D">>>> >>

InitFile ==
    /\ input \in {SINGLE_INPUT, CHAIN_INPUT, MEDIUM_TEST_INPUT, DENSE_INPUT}
    /\ heap = <<>>
    /\ map = <<>>
    /\ pc = "build"
    /\ worklist = <<>>
    /\ anchors = {}
    /\ runs = 0
    /\ ct = <<>>
    /\ panic = ""
    /\ profile = "any"
    /\ sinks = {}
    /\ first = <<>>
    /\ base = [heap |-> <<>>, map |-> <<>>]
    /\ trace = <<>>

\* main's read loop over the given file.
ReadLine ==
    /\ input # <<>>
    /\ add_entry(Head(input))
    /\ input' = Tail(input)

NextFile ==
    \/ ReadLine
    \/ add_start
    \/ add_end
    \/ propagate_forward
    \/ forward_step
    \/ propagate_backward
    \/ backward_step
    \/ get_critical_tasks

SpecFile == InitFile /\ [][NextFile]_vars

-----------------------------------------------------------------------------
(* The build phase of main over files that may name a task START or END:   *)
(* add_entry takes any identifier, the two anchor names included.          *)

NamedIds == {"A", START_ID, END_ID}

NamedLines ==
    {<<id, d>> : id \in NamedIds, d \in 0..MaxDur}
    \cup {<<id, d, deps>> : id \in NamedIds, d \in 0..MaxDur,
                            deps \in UNION {[1..n -> NamedIds] : n \in 1..MaxDeps}}

IngestNamed ==
    \E split \in NamedLines :
        /\ anchors = {}
        /\ add_entry(split)
        /\ input' = input

NextNamed ==
    \/ IngestNamed
    \/ add_start
    \/ add_end

SpecNamed == Init /\ [][NextNamed]_vars

-----------------------------------------------------------------------------
(* Properties *)

AfterForward == pc = "fwd_done"
AfterBoth == pc \in {"bwd_done", "displayed"}
Start == map[START_ID]
End == map[END_ID]
PredEarlyFinish(a) == {heap[x].early_finish : x \in Range(heap[a].pred)}
SuccLateStart(a) == {heap[x].late_start : x \in Range(heap[a].succ)}
CriticalIds == {heap[a].id : a \in {x \in Tasks : is_critical(heap[x])}}

\* C1: once add_start, add_end and propagate_forward have completed, every
\* task's early_start is the maximum early_finish of its predecessors (0
\* for START, which has none) and its early_finish is its early_start plus
\* its duration.
C1_ForwardTimes ==
    AfterForward =>
        \A a \in Tasks :
            /\ heap[a].early_start = IterMax(PredEarlyFinish(a), 0)
            /\ heap[a].early_finish = heap[a].early_start + heap[a].duration

\* C1, in the runs in which no addition has wrapped.
C1_ForwardTimes_NoWrap == profile = "any" => C1_ForwardTimes

\* C2: once both passes have completed, END's late_start and late_finish
\* equal END's early_start, every other task's late_finish is the minimum
\* late_start of its successors, and every task's late_finish minus its
\* late_start is its duration.
C2_BackwardTimes ==
    AfterBoth =>
        /\ heap[End].late_start = heap[End].early_start
        /\ heap[End].late_finish = heap[End].early_start
        /\ \A a \in Tasks \ {End} :
              heap[a].late_finish = IterMin(SuccLateStart(a), U32_MAX)
        /\ \A a \in Tasks :
              heap[a].late_finish - heap[a].late_start = heap[a].duration

\* C2, in the runs in which no addition or subtraction has wrapped.
C2_BackwardTimes_NoWrap == profile = "any" => C2_BackwardTimes

\* C3: once both passes have completed, every task, the anchors included,
\* has early_start <= late_start and early_finish <= late_finish.
C3_SlackNonNegative ==
    AfterBoth =>
        \A a \in Tasks :
            /\ heap[a].early_start <= heap[a].late_start
            /\ heap[a].early_finish <= heap[a].late_finish

\* C3, in the runs in which no addition or subtraction has wrapped.
C3_SlackNonNegative_NoWrap == profile = "any" => C3_SlackNonNegative

\* C4: once both passes have completed, END's early_finish is the maximum
\* early_finish of the tasks that had no successor when add_end began (0
\* when there was none), and equals END's late_finish.
C4_Makespan ==
    AfterBoth =>
        /\ heap[End].early_finish = IterMax({heap[a].early_finish : a \in sinks}, 0)
        /\ heap[End].early_finish = heap[End].late_finish

\* C4's case: two tasks without successors finish at different times and
\* the makespan is the later one.
C4_Witness ==
    /\ AfterBoth
    /\ \E a, b \in sinks : heap[a].early_finish < heap[b].early_finish
    /\ heap[End].early_finish > 0

\* C5: after both passes, get_critical_tasks returns exactly the
\* identifiers of the tasks with early_start = late_start and
\* early_finish = late_finish, each once, and START and END are among them.
C5_CriticalTasks ==
    pc = "displayed" =>
        /\ Range(ct) = CriticalIds
        /\ Len(ct) = Cardinality(Range(ct))
        /\ START_ID \in Range(ct)
        /\ END_ID \in Range(ct)

\* C5, in the runs in which no addition or subtraction has wrapped.
C5_CriticalTasks_NoWrap == profile = "any" => C5_CriticalTasks

\* C6: a second round of propagate_forward and propagate_backward on an
\* already propagated registry leaves every task's early_start,
\* early_finish, late_start and late_finish as the first round left them.
C6_Idempotent ==
    (AfterBoth /\ runs >= 2) =>
        \A a \in DOMAIN heap :
            /\ heap[a].early_start = first[a].early_start
            /\ heap[a].early_finish = first[a].early_finish
            /\ heap[a].late_start = first[a].late_start
            /\ heap[a].late_finish = first[a].late_finish

\* C6's case: the second round has completed on a registry in which some
\* task starts late and some task has slack.
C6_Witness ==
    /\ pc = "bwd_done"
    /\ runs = 2
    /\ \E a \in Tasks : heap[a].early_start > 0 /\ heap[a].duration > 0
    /\ \E a \in Tasks : heap[a].early_start < heap[a].late_start

\* The run over SINGLE_INPUT, over MEDIUM_TEST_INPUT (under SpecFile).
SingleRun == DOMAIN map = {"A", START_ID, END_ID} /\ heap[map["A"]].duration = 2
MediumRun == "L" \in DOMAIN map /\ anchors = {"start", "end"}

\* C7, as stated: for the single task A of duration 2, after anchoring and
\* both passes, A.early_start = 0, A.early_finish = 2 and
\* get_critical_tasks returns START, A, END in exactly that order, whatever
\* the order in which the registry's tasks are iterated.
C7_SingleTask_AsStated ==
    (pc = "displayed" /\ SingleRun) =>
        /\ heap[map["A"]].early_start = 0
        /\ heap[map["A"]].early_finish = 2
        /\ ct = <<START_ID, "A", END_ID>>

\* C7, amended: A.early_start = 0, A.early_finish = 2, and
\* get_critical_tasks returns START, A and END, each once, with END last;
\* START and A, which both have early_start 0, come in the order in which
\* the registry's tasks are iterated.
C7_SingleTask ==
    (pc = "displayed" /\ SingleRun) =>
        /\ heap[map["A"]].early_start = 0
        /\ heap[map["A"]].early_finish = 2
        /\ ct \in {<<START_ID, "A", END_ID>>, <<"A", START_ID, END_ID>>}

\* C7's case: the registry yields A before START and get_critical_tasks
\* returns them in that order.
C7_Witness ==
    /\ pc = "displayed"
    /\ SingleRun
    /\ ct = <<"A", START_ID, END_ID>>

\* C8: for the 12-task input, anchored and propagated forward and backward,
\* END's early_finish is 12 and the critical tasks are exactly START, A, D,
\* I, K, L and END.
C8_MediumInput ==
    (AfterBoth /\ MediumRun) =>
        /\ heap[End].early_finish = 12
        /\ CriticalIds = MEDIUM_TEST_EXPECTED_CRITICAL_TASKS
        /\ pc = "displayed" => Range(ct) = MEDIUM_TEST_EXPECTED_CRITICAL_TASKS

\* C8's case: the run over the 12-task input has reported its critical tasks.
C8_Witness ==
    /\ pc = "displayed"
    /\ MediumRun
    /\ Len(ct) = 7
    /\ Cardinality(DOMAIN map) = 14

\* C9: add_entry with an identifier that is already in the registry fails
\* (with the duplicate message when the line has its two or three fields)
\* and leaves the registry as it was: no task's duration, times,
\* predecessors or successors change, and no task is added.
C9_DuplicateRejected ==
    [][pc = "build" =>
         \A split \in Lines :
            (split[1] \in DOMAIN map /\ add_entry(split))
                => /\ pc' = "panicked"
                   /\ Len(split) \in {2, 3} => panic' = MsgDuplicate
                   /\ heap' = heap
                   /\ map' = map]_vars

\* C9's case: a duplicate was rejected in a registry that has an edge.
C9_Witness ==
    /\ panic = MsgDuplicate
    /\ \E a \in Tasks : heap[a].succ # <<>>
    /\ \E a \in Tasks : heap[a].pred # <<>>

\* The tasks reachable from the tasks of S along at most n successor edges.
RECURSIVE Reach(_, _)
Reach(S, n) ==
    IF n = 0 THEN S
    ELSE Reach(S \cup UNION {Range(heap[a].succ) : a \in S}, n - 1)

Acyclic ==
    \A a \in Tasks : a \notin Reach(Range(heap[a].succ), Len(heap))

\* A run in which every add_entry call so far has succeeded.
BuiltBySuccessfulCalls ==
    panic \notin {MsgFields, MsgDuplicate, MsgDuration, MsgDependency}

\* C10: add_entry fails whenever its dependency list names an identifier
\* that is not in the registry, the new task's own identifier included, and
\* the new task is then not added to the registry; and the dependency
\* relation of a registry built by successful add_entry calls is acyclic.
C10_UnknownDependencyRejected ==
    /\ [][pc = "build" =>
           \A split \in Lines :
              (/\ Len(split) = 3
               /\ \E d \in Range(split[3]) : d \notin DOMAIN map
               /\ add_entry(split))
                  => /\ pc' = "panicked"
                     /\ map' = map]_vars
    /\ [](BuiltBySuccessfulCalls => Acyclic)

\* C10's case: a task was rejected for an unknown dependency after one of
\* its known dependencies had been examined, and it is not in the registry.
C10_Witness ==
    /\ panic = MsgDependency
    /\ heap[Len(heap)].pred # <<>>
    /\ Len(heap) \notin Tasks
    /\ heap[Len(heap)].id \notin DOMAIN map

\* C11: if the registry already holds a task named START (END) when
\* add_start (add_end) runs, the call is rejected with the duplicate
\* message and the existing task is not replaced.
C11_AnchorCollisionRejected ==
    [][/\ (add_start /\ START_ID \in DOMAIN map)
            => /\ pc' = "panicked"
               /\ panic' = MsgDuplicate
               /\ map'[START_ID] = map[START_ID]
       /\ (add_end /\ END_ID \in DOMAIN map)
            => /\ pc' = "panicked"
               /\ panic' = MsgDuplicate
               /\ map'[END_ID] = map[END_ID]]_vars

\* The identifiers in the predecessor list, the successor list, of the
\* registry's task x.
PredOf(x) == Range(pred_ids(heap[map[x]]))
SuccOf(x) == Range(succ_ids(heap[map[x]]))

\* C12: after any sequence of successful add_entry calls, optionally
\* followed by add_start and add_end, B is in A's predecessor list if and
\* only if A is in B's successor list, and every task named in either list
\* is in the registry.
C12_MirrorRelation ==
    BuiltBySuccessfulCalls =>
        \A x \in DOMAIN map :
            /\ PredOf(x) \subseteq DOMAIN map
            /\ SuccOf(x) \subseteq DOMAIN map
            /\ \A y \in DOMAIN map : (y \in PredOf(x)) <=> (x \in SuccOf(y))

Anchored == anchors = {"start", "end"}

\* C13: after add_start and add_end have each run once on a registry built
\* by successful add_entry calls, START is the only task with no
\* predecessors, END is the only task with no successors, and every other
\* task has at least one predecessor and at least one successor.
C13_SingleSourceAndSink ==
    (Anchored /\ BuiltBySuccessfulCalls) =>
        \A x \in DOMAIN map :
            /\ (heap[map[x]].pred = <<>>) <=> (x = START_ID)
            /\ (heap[map[x]].succ = <<>>) <=> (x = END_ID)

\* The identifiers of a registry r (a heap and a map), and its edges as
\* pairs of identifiers <<from, to>>, read from the successor lists and
\* from the predecessor lists of the tasks of r.
IdsOf(r) == DOMAIN r.map
EdgesOf(r) ==
    LET tasks == {r.map[k] : k \in DOMAIN r.map}
    IN UNION {{<<r.heap[a].id, r.heap[b].id>> : b \in Range(r.heap[a].succ)}
                \cup {<<r.heap[b].id, r.heap[a].id>> : b \in Range(r.heap[a].pred)} :
              a \in tasks}

\* Every registry add_start then add_end, add_end then add_start, can leave
\* when run on the registry b.
StartThenEnd(b) ==
    UNION {{AddEnd(s.heap, s.map, o) : o \in EndOrders(s.heap, s.map)} :
           s \in {AddStart(b.heap, b.map, o) : o \in StartOrders(b.heap, b.map)}}
EndThenStart(b) ==
    UNION {{AddStart(s.heap, s.map, o) : o \in StartOrders(s.heap, s.map)} :
           s \in {AddEnd(b.heap, b.map, o) : o \in EndOrders(b.heap, b.map)}}

\* C14: for every registry built by successful add_entry calls, the empty
\* one included, add_start then add_end gives the same set of tasks and
\* the same set of edges as add_end then add_start; for the empty registry
\* both give exactly the edge START -> END.
C14_AnchorsCommute ==
    (pc = "build" /\ Anchored) =>
        LET here == [heap |-> heap, map |-> map]
        IN /\ \A r \in StartThenEnd(base) \cup EndThenStart(base) :
                 /\ IdsOf(r) = IdsOf(here)
                 /\ EdgesOf(r) = EdgesOf(here)
           /\ base.map = <<>> => EdgesOf(here) = {<<START_ID, END_ID>>}

\* The positions of trace at which the task at address a was written, and
\* the last of its entries.
WritesOf(a) == {i \in DOMAIN trace : trace[i].task = a}
LastWritten(a) == trace[Max(WritesOf(a))]

\* C15, as stated: during propagate_forward a task is dequeued only after
\* every one of its predecessors has reached its final early_finish: the
\* values read at each dequeue are the final ones.
C15_DequeuedAfterPredecessors_AsStated ==
    AfterForward =>
        \A i \in DOMAIN trace : trace[i].seen = PredFinishes(trace[i].task)

\* C15, amended: a task may be dequeued before a predecessor has reached
\* its final early_finish, and is then dequeued again: every task is
\* dequeued at least once, and the last time it is dequeued every one of
\* its predecessors has reached its final early_finish.
C15_LastDequeueAfterPredecessors ==
    AfterForward =>
        \A a \in Tasks :
            /\ WritesOf(a) # {}
            /\ LastWritten(a).seen = PredFinishes(a)

\* C15's case: the pass has ended and some task was dequeued while a
\* predecessor's early_finish was not yet final.
C15_Witness ==
    /\ AfterForward
    /\ \E i \in DOMAIN trace : trace[i].seen # PredFinishes(trace[i].task)

\* The number of paths from START to the task at address a along
\* successor edges, and from a to END; PathsVia sums over a list of
\* neighbours.
RECURSIVE PathsFromStart(_), PathsToEnd(_), SumFromStart(_), SumToEnd(_)
SumFromStart(s) == IF s = <<>> THEN 0 ELSE PathsFromStart(Head(s)) + SumFromStart(Tail(s))
PathsFromStart(a) == IF a = Start THEN 1 ELSE SumFromStart(heap[a].pred)
SumToEnd(s) == IF s = <<>> THEN 0 ELSE PathsToEnd(Head(s)) + SumToEnd(Tail(s))
PathsToEnd(a) == IF a = End THEN 1 ELSE SumToEnd(heap[a].succ)

\* C16, as stated: in one run of propagate_forward each task's early_start
\* and early_finish are written exactly once, and in one run of
\* propagate_backward each task's late_start and late_finish are written
\* exactly once.
C16_WrittenOnce_AsStated ==
    (AfterForward \/ AfterBoth) =>
        \A a \in Tasks : Cardinality(WritesOf(a)) = 1

\* C16, amended: in one run of propagate_forward each task's early_start
\* and early_finish are written at least once, once for every path from
\* START to the task, and in one run of propagate_backward each task's
\* late_start and late_finish are written at least once, once for every
\* path from the task to END.
C16_WrittenOncePerPath ==
    /\ AfterForward =>
          \A a \in Tasks : /\ Cardinality(WritesOf(a)) >= 1
                           /\ Cardinality(WritesOf(a)) = PathsFromStart(a)
    /\ AfterBoth =>
          \A a \in Tasks : /\ Cardinality(WritesOf(a)) >= 1
                           /\ Cardinality(WritesOf(a)) = PathsToEnd(a)

\* C16's case: the backward pass has ended after writing some task three
\* times, a task that the forward pass wrote once.
C16_Witness ==
    /\ pc = "bwd_done"
    /\ \E a \in Tasks : /\ Cardinality(WritesOf(a)) = 3
                         /\ PathsFromStart(a) = 1

\* The number of edges of the registry: the lengths of the successor
\* lists of its tasks, added up.
RECURSIVE SumSucc(_)
SumSucc(S) ==
    IF S = {} THEN 0
    ELSE LET a == CHOOSE x \in S : TRUE
         IN Len(heap[a].succ) + SumSucc(S \ {a})
EdgeCount == SumSucc(Tasks)

\* C17: at every point of propagate_forward on an anchored acyclic
\* registry, the work queue holds at most as many entries as the anchored
\* graph has edges.
C17_QueueWithinEdgeCount ==
    pc = "forward" => Len(worklist) <= EdgeCount

C19_NoUnderflow ==
    (pc = "backward" /\ worklist # <<>> /\ Head(worklist) \in DOMAIN map) =>
        LET cur == map[Head(worklist)]
        IN heap[cur].duration <= LateFinish(cur)

\* C19, in the runs in which no addition has wrapped.
C19_NoUnderflow_NoWrap == profile = "any" => C19_NoUnderflow

\* C20: an add_entry call that fails because one of several listed
\* dependencies is not in the registry leaves the registry as it was before
\* the call, whatever order the dependencies are examined in: the map is
\* unchanged and no task of the registry is changed, so no successor list
\* gains the rejected task.
C20_FailedEntryLeavesRegistry ==
    [][pc = "build" =>
         \A split \in Lines :
            (/\ Len(split) = 3
             /\ \E d \in Range(split[3]) : d \notin DOMAIN map
             /\ add_entry(split))
                => /\ map' = map
                   /\ \A a \in Tasks : heap'[a] = heap[a]]_vars

====
